---- MODULE Spec2Model ----
(***************************************************************************)
(* Model of the scrape orchestration engine of v0-appraiser-scraper:       *)
(* the BaseScraper.scrape lifecycle and the county scrapers that override  *)
(* it, the error taxonomy, and the ScraperFactory instance cache.          *)
(***************************************************************************)
EXTENDS Integers, Sequences, FiniteSets, TLC

(***************************************************************************)
(* Bounds                                                                  *)
(***************************************************************************)
\* number of scrape attempt slots (stack frames of scrape) in one behaviour
MaxAttempts == 2
\* number of getScraper calls that may be in flight in one behaviour
MaxCalls == 3
\* number of clearScraperCache calls in one behaviour
MaxClears == 1

Attempts == 1..MaxAttempts
Calls == 1..MaxCalls

(***************************************************************************)
(* Scrapers.  "Base" is a strategy that inherits BaseScraper.scrape and    *)
(* supplies only the two abstract hooks; the others override scrape.       *)
(***************************************************************************)
ScraperKinds == {"Base", "Alachua", "Polk", "Brevard", "Osceola"}

\* scrapers that inherit the template method of BaseScraper
InheritsScrape(k) == k = "Base"

\* scrapers whose scrape() binds the caught value as _error but reads error
CatchReadsUnbound(k) == k = "Polk"

\* scrapers whose extractPropertyData binds _error but reads error
HookCatchReadsUnbound(k) == k = "Polk"

\* how the scraper waits for the page: "strict" lets the deadline error
\* propagate, "swallow" catches it and sleeps, "none" has no wait step
WaitMode(k) ==
  CASE k = "Brevard" -> "swallow"
    [] k = "Osceola" -> "none"
    [] OTHER -> "strict"

(***************************************************************************)
(* Errors (utils/errors.ts)                                                *)
(***************************************************************************)
ErrorCode == {"COUNTY_NOT_FOUND", "COUNTY_DISABLED", "INVALID_IDENTIFIER_TYPE",
              "NAVIGATION_FAILED", "PAGE_LOAD_TIMEOUT", "SEARCH_FAILED",
              "NO_RESULTS_FOUND", "MULTIPLE_RESULTS_FOUND", "EXTRACTION_FAILED",
              "MISSING_REQUIRED_FIELD", "INVALID_DATA_FORMAT",
              "BROWSER_LAUNCH_FAILED", "BROWSER_CRASH", "TIMEOUT",
              "UNKNOWN_ERROR", "VALIDATION_ERROR"}

\* a thrown value: its class, and for a ScraperError its code and details.
\* details names the wrapped original error by its message ("undefined" if none)
NoError == [cls |-> "none", code |-> "none", message |-> "none", details |-> "undefined"]

ScraperError(code, message, details) ==
  [cls |-> "ScraperError", code |-> code, message |-> message, details |-> details]

\* new Error(message)
PlainError(message) ==
  [cls |-> "Error", code |-> "none", message |-> message, details |-> "undefined"]

\* puppeteer's TimeoutError, raised when a driver call exceeds its deadline
TimeoutError(message) ==
  [cls |-> "TimeoutError", code |-> "none", message |-> message, details |-> "undefined"]

\* reading the undeclared identifier `error` inside catch (_error) { ... }
ReferenceError ==
  [cls |-> "ReferenceError", code |-> "none", message |-> "error is not defined",
   details |-> "undefined"]

createNoResultsError ==
  ScraperError("NO_RESULTS_FOUND", "No results found for identifier", "undefined")

createExtractionError(field, details) ==
  ScraperError("EXTRACTION_FAILED",
               IF field = "ownerNames" THEN "Failed to extract ownerNames from page"
                                       ELSE "Failed to extract mailingAddress from page",
               details)

\* the driver's own failure for a call that cannot complete
DriverFaults == {"net", "timeout"}
DriverError(step, fault) ==
  IF fault = "timeout"
    THEN TimeoutError(IF step = "goto" THEN "Navigation timeout exceeded"
                                       ELSE "Waiting failed: timeout exceeded")
    ELSE PlainError(IF step = "goto" THEN "net::ERR_NAME_NOT_RESOLVED"
                                     ELSE "Protocol error")

(***************************************************************************)
(* Data (types/scraper.ts)                                                 *)
(***************************************************************************)
OwnerLists == {<<>>, <<"">>, <<"JOHN DOE">>}
AddressTexts == {"", "1 MAIN ST"}

\* PropertyOwnerData, reduced to the two fields the lifecycle inspects
PropertyOwnerData(owners, address) == [ownerNames |-> owners, mailingAddress |-> address]
NoData == [ownerNames |-> <<>>, mailingAddress |-> "none"]

\* what a strategy's extractPropertyData may hand back to the lifecycle
Candidates == {PropertyOwnerData(o, ad) : o \in OwnerLists, ad \in AddressTexts}

\* what page.evaluate reads off a county page: one owner text, one address text
PageData == [ownerName : {"", "JOHN DOE"}, mailingAddress : AddressTexts]

\* ScraperErrorInfo of a failure result
NoInfo == [code |-> "none", message |-> "none", details |-> "undefined"]
ErrorInfo(e) == [code |-> e.code, message |-> e.message, details |-> e.details]

\* ScrapeResult; status "pending" before scrape settles, "threw" when the
\* promise rejects with `thrown` instead of resolving to a result object
NoResult == [status |-> "pending", data |-> NoData, error |-> NoInfo, thrown |-> NoError]
SuccessResult(d) == [status |-> "success", data |-> d, error |-> NoInfo, thrown |-> NoError]
FailureResult(info) == [status |-> "failure", data |-> NoData, error |-> info, thrown |-> NoError]
Rejected(e) == [status |-> "threw", data |-> NoData, error |-> NoInfo, thrown |-> e]

(***************************************************************************)
(* Pure parts of the lifecycle                                             *)
(***************************************************************************)
\* BaseScraper.validatePropertyData: the error it throws, NoError if none
validatePropertyData(data) ==
  IF Len(data.ownerNames) = 0
    THEN createExtractionError("ownerNames", "No owner names found")
    ELSE IF data.mailingAddress = ""
      THEN createExtractionError("mailingAddress", "No mailing address found")
      ELSE NoError

\* the catch block of scrape: error instanceof ScraperError ? error : wrap
toScraperError(e) ==
  IF e.cls = "ScraperError" THEN e
  ELSE ScraperError("UNKNOWN_ERROR", e.message, e.message)

\* utils/browser.ts navigateToUrl: any goto failure becomes a plain Error
navigateToUrlError(fault) ==
  PlainError(IF fault = "timeout" THEN "Navigation to url failed: Navigation timeout exceeded"
                                  ELSE "Navigation to url failed: net::ERR_NAME_NOT_RESOLVED")

\* the error navigateToSearch lets escape when page.goto fails
navigateError(k, fault) ==
  IF InheritsScrape(k) THEN navigateToUrlError(fault) ELSE DriverError("goto", fault)

\* utils/browser.ts waitForSelector: the deadline error becomes a plain Error
waitForSelectorError == PlainError("Selector not found within timeout")

\* the error the readiness wait lets escape when its deadline passes
waitError(k, hasSelector) ==
  IF InheritsScrape(k) /\ hasSelector THEN waitForSelectorError
  ELSE DriverError("wait", "timeout")

\* the catch block at the end of a county's extractPropertyData
hookRethrow(k, e) ==
  IF HookCatchReadsUnbound(k) THEN ReferenceError
  ELSE IF e.cls = "ScraperError" THEN e
  ELSE ScraperError("EXTRACTION_FAILED", "Failed to extract property data", e.message)

\* a county's extractPropertyData on the page data it read:
\* [threw |-> error or NoError, data |-> the record returned]
countyExtract(k, d) ==
  IF d.ownerName = ""
    THEN [threw |-> hookRethrow(k, createNoResultsError), data |-> NoData]
    ELSE IF d.mailingAddress = ""
      THEN [threw |-> hookRethrow(k, ScraperError("EXTRACTION_FAILED",
                                      "Failed to extract mailing address", "undefined")),
            data |-> NoData]
      ELSE [threw |-> NoError,
            data |-> PropertyOwnerData(<<d.ownerName>>, d.mailingAddress)]

\* a template method that forgets to call performSearch
afterNavigate_NoSearch(k) == IF WaitMode(k) = "none" THEN "extract" ELSE "wait"

\* the phase that follows navigation
afterNavigate(k) ==
  IF InheritsScrape(k) THEN "search"
  ELSE IF WaitMode(k) = "none" THEN "extract" ELSE "wait"

(***************************************************************************)
(* Comparison functions (testing/TestRunner.ts).  A string is a sequence   *)
(* of one-character strings.                                               *)
(***************************************************************************)
\* longest text the fold is applied to, and longest text in a compared pair
MaxLen == 3
MaxPairLen == 2

UpperCase == <<"A", "B", "D", "E", "H", "I", "J", "K", "M", "N", "O", "S", "T", "V">>
LowerCase == <<"a", "b", "d", "e", "h", "i", "j", "k", "m", "n", "o", "s", "t", "v">>
Digits == {"1", "2", "3"}

\* \s and \w of the regular expressions; \w is [A-Za-z0-9_]
WhiteSpace == {" ", "\t"}
WordChars == {UpperCase[i] : i \in DOMAIN UpperCase}
               \cup {LowerCase[i] : i \in DOMAIN LowerCase} \cup Digits \cup {"_"}

\* the characters the enumerated texts are built from
Alphabet == {"a", "b", "A", " ", "\t", ".", "_"}

Min3(x, y, z) == IF x <= y /\ x <= z THEN x ELSE IF y <= z THEN y ELSE z

\* String.prototype.toLowerCase
toLowerCase(text) ==
  [i \in DOMAIN text |->
     IF \E u \in DOMAIN UpperCase : UpperCase[u] = text[i]
       THEN LowerCase[CHOOSE u \in DOMAIN UpperCase : UpperCase[u] = text[i]]
       ELSE text[i]]

\* String.prototype.trim
RECURSIVE trimStart(_)
trimStart(text) ==
  IF text # <<>> /\ Head(text) \in WhiteSpace THEN trimStart(Tail(text)) ELSE text

RECURSIVE trimEnd(_)
trimEnd(text) ==
  IF text # <<>> /\ text[Len(text)] \in WhiteSpace
    THEN trimEnd(SubSeq(text, 1, Len(text) - 1)) ELSE text

trim(text) == trimEnd(trimStart(text))

\* .replace(/\s+/g, ' '): every maximal run of whitespace becomes one space
RECURSIVE collapseWhitespace(_)
collapseWhitespace(text) ==
  IF text = <<>> THEN <<>>
  ELSE IF Head(text) \in WhiteSpace
    THEN <<" ">> \o collapseWhitespace(trimStart(text))
    ELSE <<Head(text)>> \o collapseWhitespace(Tail(text))

\* .replace(/[^\w\s]/g, ''): drops what is neither word character nor whitespace
stripPunctuation(text) == SelectSeq(text, LAMBDA c : c \in WordChars \cup WhiteSpace)

\* normalizeText: the four steps in the order the code chains them
normalizeText(text) == stripPunctuation(collapseWhitespace(trim(toLowerCase(text))))

\* a cell rule without substitution: a changed character costs a deletion
\* and an insertion
cell_NoSubstitution(diag, left, up, same) ==
  IF same THEN diag ELSE IF left <= up THEN left + 1 ELSE up + 1

\* matrix[i][j] from matrix[i-1][j-1], matrix[i][j-1] and matrix[i-1][j]
cell(diag, left, up, same) ==
  IF same THEN diag ELSE Min3(diag + 1, left + 1, up + 1)

\* the inner loop over j: row holds matrix[i][0..Len(row)-1], prev is
\* matrix[i-1]; column j is kept at index j+1
RECURSIVE fillRow(_, _, _, _, _)
fillRow(prev, row, i, s1, s2) ==
  LET j == Len(row) IN
    IF j > Len(s1) THEN row
    ELSE fillRow(prev,
                 Append(row, cell(prev[j], row[j], prev[j + 1], s2[i] = s1[j])),
                 i, s1, s2)

\* matrix[i] once the loops have filled it
RECURSIVE matrixRow(_, _, _)
matrixRow(i, s1, s2) ==
  IF i = 0 THEN [j \in 1..(Len(s1) + 1) |-> j - 1]
  ELSE fillRow(matrixRow(i - 1, s1, s2), <<i>>, i, s1, s2)

levenshteinDistance(s1, s2) == matrixRow(Len(s2), s1, s2)[Len(s1) + 1]

\* a number 1 - distance / maxLength, kept as the exact fraction num / den
Ratio(num, den) == [num |-> num, den |-> den]
One == Ratio(1, 1)

\* a denominator taken from the shorter string
maxLength_Shorter(norm1, norm2) == IF Len(norm1) <= Len(norm2) THEN Len(norm1) ELSE Len(norm2)

\* Math.max(norm1.length, norm2.length)
maxLength(norm1, norm2) == IF Len(norm1) >= Len(norm2) THEN Len(norm1) ELSE Len(norm2)

\* a similarity that divides by the length of the first string only
calculateSimilarity_FirstLength(a, b) ==
  LET norm1 == normalizeText(a)
      norm2 == normalizeText(b)
  IN IF norm1 = norm2 THEN One
     ELSE IF Len(norm1) = 0 THEN One
     ELSE Ratio(Len(norm1) - levenshteinDistance(norm1, norm2), Len(norm1))

calculateSimilarity(a, b) ==
  LET norm1 == normalizeText(a)
      norm2 == normalizeText(b)
  IN IF norm1 = norm2 THEN One
     ELSE IF maxLength(norm1, norm2) = 0 THEN One
     ELSE Ratio(maxLength(norm1, norm2) - levenshteinDistance(norm1, norm2),
                maxLength(norm1, norm2))

\* similarity >= 0.8; 1 - 1/5 evaluates to exactly 0.8 in IEEE doubles, so
\* the comparison of the fraction agrees with the comparison of the double
meetsThreshold(sim) == 10 * sim.num >= 8 * sim.den

\* all texts over the alphabet up to length n
RECURSIVE TextsUpTo(_)
TextsUpTo(n) ==
  IF n = 0 THEN {<<>>}
  ELSE LET shorter == TextsUpTo(n - 1) IN
         shorter \cup {Append(t, c) : t \in {u \in shorter : Len(u) = n - 1}, c \in Alphabet}

Texts == TextsUpTo(MaxLen)
PairTexts == TextsUpTo(MaxPairLen)

\* the texts of the documented examples and of the scraped records
Chars(s) ==
  CASE s = "" -> <<>>
    [] s = "JOHN DOE" -> <<"J", "O", "H", "N", " ", "D", "O", "E">>
    [] s = "JANE DOE" -> <<"J", "A", "N", "E", " ", "D", "O", "E">>
    [] s = "JOHN B DOE" -> <<"J", "O", "H", "N", " ", "B", " ", "D", "O", "E">>
    [] s = "1 MAIN ST" -> <<"1", " ", "M", "A", "I", "N", " ", "S", "T">>
    [] s = "2 OAK AVE" -> <<"2", " ", "O", "A", "K", " ", "A", "V", "E">>
    [] s = "123 MAIN ST" -> <<"1", "2", "3", " ", "M", "A", "I", "N", " ", "S", "T">>
    [] s = "123 main st." -> <<"1", "2", "3", " ", "m", "a", "i", "n", " ", "s", "t", ".">>
    [] s = "a . b" -> <<"a", " ", ".", " ", "b">>
    [] s = "a  b" -> <<"a", " ", " ", "b">>

\* the pairs calculateSimilarity is applied to
ExamplePairs == {<<Chars("JOHN DOE"), Chars("JANE DOE")>>,
                 <<Chars("123 MAIN ST"), Chars("123 main st.")>>,
                 <<Chars("JOHN DOE"), Chars("JOHN B DOE")>>,
                 <<Chars("a . b"), Chars("a  b")>>}
TextPairs == (PairTexts \X PairTexts) \cup ExamplePairs

(***************************************************************************)
(* State                                                                   *)
(***************************************************************************)
VARIABLES
  pc,          \* per attempt: where scrape() stands
  scraper,     \* per attempt: the scraper whose scrape() runs
  browser,     \* per attempt: the local `browser`, 0 for null, else a session id
  thrown,      \* per attempt: the error that left the try block, NoError if none
  candidate,   \* per attempt: propertyData returned by the extract hook
  result,      \* per attempt: what scrape() settles with
  closeCalls,  \* per attempt: invocations of closeBrowser made by it
  trace,       \* per attempt: the lifecycle phases run, in order
  sessions,    \* browser sessions: who opened, who closed, whether closed
  callPc,      \* per getScraper call: where it stands
  callCounty,  \* per getScraper call: config.id
  callResult,  \* per getScraper call: the instance returned, 0 if none
  callBorn,    \* per getScraper call: the instance it constructed, 0 if none
  callEpoch,   \* per getScraper call: clearScraperCache count when it returned
  callAfter,   \* per getScraper call: the calls that had returned when it began
  callThrown,  \* per getScraper call: the error it rejected with
  scraperCache,\* the module-level Map: county id -> instance, 0 if absent
  instances,   \* instances constructed so far (ids 1..instances)
  everCached,  \* per county: the instances the cache has held since the last clear
  clears,      \* clearScraperCache calls so far
  reqPc,       \* per POST /api/scrape request: where the handler stands
  req,         \* per request: what the handler reads from the request and env
  response,    \* per request: the HTTP response it answers with
  reqSteps,    \* per request: the steps the handler has taken, in order
  textPc,      \* which comparison function has been applied, "idle" if none
  str1,        \* first argument of the comparison function applied
  str2,        \* second argument of calculateSimilarity
  folded,      \* the value normalizeText returned
  similarity,  \* the value calculateSimilarity returned
  testPc,      \* per runTestCase call: where it stands
  testCase,    \* per runTestCase call: its TestCase argument
  testResult,  \* per runTestCase call: the TestResult it returns
  batchPc,     \* where runTestCases stands
  batchInput,  \* the testCases argument of runTestCases
  results,     \* the local `results` array of runTestCases
  batchResult, \* the BatchTestResult runTestCases returns
  identifier,  \* per attempt: request.identifier, as characters
  urls,        \* per attempt: the parcel values of the URLs page.goto was given
  clayPc,      \* whether Clay's page.evaluate callback has run
  clayBlocks,  \* the owner blocks of the Clay page, in document order
  clayData,    \* what the callback returned: merged owners and addresses
  clayThrown,  \* the error extractPropertyData threw after the callback
  configCache, \* the module-level configCache of counties.ts, "null" if unset
  configFile,  \* config/counties.json on disk: its content version, or "broken"
  configLog    \* the loadCountyConfigurations and clearConfigCache calls so far

attemptVars == <<pc, scraper, browser, thrown, candidate, result, closeCalls, trace, sessions>>
registryVars == <<callPc, callCounty, callResult, callBorn, callEpoch, callAfter,
                  callThrown, scraperCache,
                  instances, everCached, clears>>
routeVars == <<reqPc, req, response, reqSteps>>
textVars == <<textPc, str1, str2, folded, similarity>>
testVars == <<testPc, testCase, testResult>>
batchVars == <<batchPc, batchInput, results, batchResult>>
pascoVars == <<identifier, urls>>
clayVars == <<clayPc, clayBlocks, clayData, clayThrown>>
configVars == <<configCache, configFile, configLog>>
restVars == <<batchVars, pascoVars, clayVars, configVars>>
vars == <<attemptVars, registryVars, routeVars, textVars, testVars, restVars>>

\* what the steps of scrape() leave alone, and what getScraper leaves alone
nonAttemptVars == <<registryVars, routeVars, textVars, testVars, restVars>>
nonRegistryVars == <<attemptVars, routeVars, textVars, testVars, restVars>>

\* what the POST handler, the comparison functions and runTestCase leave alone
nonRouteVars == <<attemptVars, registryVars, textVars, testVars, restVars>>
nonTextVars == <<attemptVars, registryVars, routeVars, testVars, restVars>>
nonTestVars == <<attemptVars, registryVars, routeVars, textVars, restVars>>

SessionIds == 1..MaxAttempts
NoSession == [state |-> "unused", openedBy |-> 0, usedBy |-> {}, closedBy |-> {}]

\* a launch that hands every attempt the one shared browser
freshSession_Pooled == CHOOSE i \in SessionIds : \A j \in SessionIds : i <= j

\* the id the next launched browser gets
freshSession == CHOOSE i \in SessionIds : sessions[i].state = "unused"
                  /\ \A j \in SessionIds : sessions[j].state = "unused" => i <= j

(***************************************************************************)
(* Strategy registry configuration (ScraperFactory.ts)                     *)
(***************************************************************************)
Counties == {"polk", "alachua", "ghost"}

\* the ids that have an entry in config/counties.json
ConfigIds == Counties \cup {"miami-dade", "nodefault", "notbase", "closed"}

\* property names every plain object inherits from Object.prototype
InheritedKeys == {"constructor"}

\* the countyId values a request may carry; all pass z.string().min(1)
RequestIds == ConfigIds \cup InheritedKeys \cup {"nowhere"}

\* config.enabled of an entry of counties.json
Enabled(id) == id # "closed"

\* what import(`../counties/${config.scraperModule}`) and the checks after it
\* find: "ok" a BaseScraper subclass, "missing" the import rejects,
\* "noDefault" no default export, "notBase" an object that is no BaseScraper
ModuleOf(county) ==
  CASE county = "ghost" -> "missing"
    [] county = "nodefault" -> "noDefault"
    [] county = "notbase" -> "notBase"
    [] OTHER -> "ok"

\* the scraper class a county's module exports
KindOf(county) ==
  CASE county = "polk" -> "Polk"
    [] county = "alachua" -> "Alachua"
    [] OTHER -> "Base"

\* a factory that skips the instanceof BaseScraper check
accepted_NoInstanceCheck(m) == m \in {"ok", "notBase"}

\* getScraper's checks: a default export exists and the instance it
\* constructs is a BaseScraper
accepted(m) == m = "ok"

\* whether new ScraperClass(config) is reached and runs
constructed(m) == m \in {"ok", "notBase"}

createCountyNotFoundError ==
  ScraperError("COUNTY_NOT_FOUND", "County not found in configuration", "undefined")

createCountyDisabledError ==
  ScraperError("COUNTY_DISABLED", "County is currently disabled", "undefined")

\* configs[countyId] on the object JSON.parse returned: an own entry, or a
\* member inherited from Object.prototype (truthy, with no `enabled`), or
\* undefined
lookupConfig(countyId) ==
  IF countyId \in ConfigIds THEN [truthy |-> TRUE, enabled |-> Enabled(countyId)]
  ELSE IF countyId \in InheritedKeys THEN [truthy |-> TRUE, enabled |-> FALSE]
  ELSE [truthy |-> FALSE, enabled |-> FALSE]

\* loadCountyConfig(countyId): the error it throws, NoError when it returns
loadCountyConfig(countyId) ==
  LET config == lookupConfig(countyId) IN
    IF ~config.truthy THEN createCountyNotFoundError
    ELSE IF ~config.enabled THEN createCountyDisabledError
    ELSE NoError

(***************************************************************************)
(* POST /api/scrape (app/api/scrape/route.ts, lib/api/auth.ts)             *)
(***************************************************************************)
\* what the handler reads: process.env.API_KEY, the x-api-key header, the
\* apiKey query parameter, whether referer/origin contains the host header,
\* the body ("malformed" is no JSON, "invalid" fails the zod schema), and
\* the countyId of a valid body
Requests ==
  [configuredApiKey : {"", "secret"}, headerApiKey : {"", "secret", "guess"},
   queryApiKey : {"", "secret", "guess"}, sameOrigin : BOOLEAN,
   body : {"malformed", "invalid", "valid"}, countyId : RequestIds]

NoRequest == [configuredApiKey |-> "", headerApiKey |-> "", queryApiKey |-> "",
              sameOrigin |-> FALSE, body |-> "valid", countyId |-> "nowhere"]

\* validateApiKey(request)
validateApiKey(r) ==
  IF r.configuredApiKey = "" THEN TRUE
  ELSE IF r.sameOrigin THEN TRUE
  ELSE IF r.headerApiKey # "" /\ r.headerApiKey = r.configuredApiKey THEN TRUE
  ELSE r.queryApiKey # "" /\ r.queryApiKey = r.configuredApiKey

\* an HTTP response: status, and of the JSON body the error code, message
\* and details, metadata.countyId ("none" when the body has no metadata) and
\* the record of a success
NoResponse == [status |-> 0, code |-> "none", message |-> "none",
               details |-> "undefined", metadata |-> "none", data |-> NoData]

createUnauthorizedResponse ==
  [status |-> 401, code |-> "UNAUTHORIZED", message |-> "Invalid or missing API key",
   details |-> "null", metadata |-> "none", data |-> NoData]

\* the response to a body that fails the schema
validationResponse ==
  [status |-> 400, code |-> "VALIDATION_ERROR", message |-> "Invalid request data",
   details |-> "error.errors", metadata |-> "none", data |-> NoData]

\* the status of a ScraperError caught by the handler
errorStatus(code) == IF code = "COUNTY_NOT_FOUND" THEN 404 ELSE 500

\* the outer catch block of POST: a ScraperError keeps its code, anything
\* else is answered as UNKNOWN_ERROR
errorResponse(e, countyId) ==
  IF e.cls = "ScraperError"
    THEN [status |-> errorStatus(e.code), code |-> e.code, message |-> e.message,
          details |-> e.details, metadata |-> countyId, data |-> NoData]
    ELSE [status |-> 500, code |-> "UNKNOWN_ERROR", message |-> e.message,
          details |-> e.message, metadata |-> "unknown", data |-> NoData]

\* NextResponse.json(result, { status: result.success ? 200 : 500 })
resultResponse(res, countyId) ==
  IF res.status = "success"
    THEN [status |-> 200, code |-> "none", message |-> "none", details |-> "undefined",
          metadata |-> countyId, data |-> res.data]
    ELSE [status |-> 500, code |-> res.error.code, message |-> res.error.message,
          details |-> res.error.details, metadata |-> countyId, data |-> NoData]

(***************************************************************************)
(* runTestCase (testing/TestRunner.ts)                                     *)
(***************************************************************************)
ExpectedOwnerNames == {"JOHN DOE", "JOHN B DOE", "JANE DOE"}
ExpectedAddresses == {"1 MAIN ST", "2 OAK AVE"}

\* the counties test cases are written for
TestCounties == {"alachua", "polk", "miami-dade", "closed", "nowhere", "notbase"}

TestCases == [countyId : TestCounties, expectedOwnerName : ExpectedOwnerNames,
              expectedAddress : ExpectedAddresses]

NoTestCase == [countyId |-> "nowhere", expectedOwnerName |-> "", expectedAddress |-> ""]

\* TestResult: passed, assertions, error, and of scrapeResult its success
\* flag and error code
NoTestResult == [passed |-> FALSE, assertions |-> <<>>, error |-> "undefined",
                 scrapeSuccess |-> FALSE, scrapeCode |-> "none"]

\* ownerNames.join(', ') || ''   (the records of the model name one owner at most)
joinOwnerNames(ownerNames) == IF Len(ownerNames) = 0 THEN "" ELSE ownerNames[1]

\* one TestAssertion
assertion(field, expected, actual) ==
  LET sim == calculateSimilarity(Chars(actual), Chars(expected)) IN
    [field |-> field, expected |-> expected, actual |-> actual,
     passed |-> meetsThreshold(sim), similarity |-> sim]

\* a verdict that is content with one passing assertion
everyPassed_Some(assertions) == \E i \in DOMAIN assertions : assertions[i].passed

\* assertions.every((a) => a.passed)
everyPassed(assertions) == \A i \in DOMAIN assertions : assertions[i].passed

\* the TestResult for a scrape that returned success
assertedResult(data, tc) ==
  LET assertions == <<assertion("ownerName", tc.expectedOwnerName,
                                joinOwnerNames(data.ownerNames)),
                      assertion("mailingAddress", tc.expectedAddress,
                                data.mailingAddress)>>
  IN [passed |-> everyPassed(assertions), assertions |-> assertions,
      error |-> "undefined", scrapeSuccess |-> TRUE, scrapeCode |-> "none"]

\* the TestResult for a scrape that returned a failure (lines 97-108)
failedScrapeResult(info) ==
  [passed |-> FALSE, assertions |-> <<>>, error |-> info.message,
   scrapeSuccess |-> FALSE, scrapeCode |-> info.code]

\* the TestResult built by the catch block (lines 149-176)
caughtResult(e) ==
  [passed |-> FALSE, assertions |-> <<>>, error |-> e.message,
   scrapeSuccess |-> FALSE, scrapeCode |-> "TEST_EXECUTION_ERROR"]

(***************************************************************************)
(* runTestCases (testing/TestRunner.ts)                                    *)
(***************************************************************************)
\* the test cases a batch is made of: one whose county resolves and scrapes,
\* one whose scraper's scrape() rejects, one whose county is not configured,
\* one whose scraper module cannot be used
BatchCases ==
  {[countyId |-> c, expectedOwnerName |-> "JOHN DOE", expectedAddress |-> "1 MAIN ST"] :
     c \in {"miami-dade", "polk", "nowhere", "notbase"}}

\* BatchTestResult
\* the testCases arguments: up to n cases, one attempt slot each
RECURSIVE BatchesUpTo(_)
BatchesUpTo(n) ==
  IF n = 0 THEN {<<>>}
  ELSE LET shorter == BatchesUpTo(n - 1) IN
         shorter \cup {Append(b, tc) : b \in {q \in shorter : Len(q) = n - 1}, tc \in BatchCases}

BatchInputs == BatchesUpTo(MaxAttempts)

NoBatchResult == [totalTests |-> 0, passedTests |-> 0, failedTests |-> 0, results |-> <<>>]

\* a count of failures that looks at the error field only
failedTests_ErrorsOnly(rs) == Cardinality({i \in DOMAIN rs : rs[i].error # "undefined"})

\* results.filter((r) => r.passed).length and results.filter((r) => !r.passed).length
passedTests(rs) == Cardinality({i \in DOMAIN rs : rs[i].passed})
failedTests(rs) == Cardinality({i \in DOMAIN rs : ~rs[i].passed})

\* a loop that starts every case without awaiting the one before
mayStart_Overlapping(i, rs) == i > Len(rs)

\* a loop that gives up after a case that did not pass
mayStart_StopOnFailure(i, rs) == i = Len(rs) + 1 /\ \A j \in DOMAIN rs : rs[j].passed

\* for (const testCase of testCases) { const result = await runTestCase(...);
\* results.push(result) }: case i is started once i-1 results are in
mayStart(i, rs) == i = Len(rs) + 1

(***************************************************************************)
(* PascoScraper (counties/osceola.ts, second module).  An identifier is a  *)
(* sequence of one-character strings.                                      *)
(***************************************************************************)
\* longest enumerated identifier
MaxIdLen == 5

\* the characters the enumerated identifiers are built from
IdAlphabet == {"1", "2", "-", "A"}

\* [0-9]
NumericChars == {"0", "1", "2", "3", "4", "5", "6", "7", "8", "9"}

\* all identifiers over the alphabet up to length n
RECURSIVE IdsUpTo(_)
IdsUpTo(n) ==
  IF n = 0 THEN {<<>>}
  ELSE LET shorter == IdsUpTo(n - 1) IN
         shorter \cup {Append(t, c) : t \in {u \in shorter : Len(u) = n - 1}, c \in IdAlphabet}

\* the example of the header comment: 22-26-21-0030-00000-0280
ExampleParcelId ==
  <<"2", "2", "-", "2", "6", "-", "2", "1", "-", "0", "0", "3", "0", "-",
    "0", "0", "0", "0", "0", "-", "0", "2", "8", "0">>

\* the identifiers requests carry
Identifiers == IdsUpTo(MaxIdLen) \cup {ExampleParcelId}

\* parcelId.split('-')
RECURSIVE split(_)
split(text) ==
  IF \A i \in DOMAIN text : text[i] # "-" THEN <<text>>
  ELSE LET k == CHOOSE i \in DOMAIN text :
                  text[i] = "-" /\ \A j \in 1..(i - 1) : text[j] # "-"
       IN <<SubSeq(text, 1, k - 1)>> \o split(SubSeq(text, k + 1, Len(text)))

\* parts[i] as join sees it: an index past the end gives undefined, which
\* join renders as the empty string
partAt(parts, i) == IF i \in DOMAIN parts THEN parts[i] ELSE <<>>

\* a rearrangement that leaves the segments where they are
rearranged_Unchanged(parts) == parts

\* [parts[2], parts[1], parts[0], ...parts.slice(3)]
rearranged(parts) ==
  <<partAt(parts, 3), partAt(parts, 2), partAt(parts, 1)>> \o SubSeq(parts, 4, Len(parts))

\* rearranged.join('-')
RECURSIVE joinDash(_)
joinDash(parts) ==
  IF parts = <<>> THEN <<>>
  ELSE IF Len(parts) = 1 THEN parts[1]
  ELSE parts[1] \o <<"-">> \o joinDash(Tail(parts))

\* .replace(/[^0-9]/g, '')
removeNonNumeric(text) == SelectSeq(text, LAMBDA c : c \in NumericChars)

\* a length check that lets two segments through
tooFewParts_Two(parts) == Len(parts) < 2

\* parts.length < 3
tooFewParts(parts) == Len(parts) < 3

\* the ScraperError transformParcelId throws; its fifth argument, the
\* identifier, is the raw parcelId
PascoValidationError(parcelId) ==
  [cls |-> "ScraperError", code |-> "VALIDATION_ERROR",
   message |-> "Invalid Pasco parcelId format", details |-> "undefined",
   identifier |-> parcelId]

\* transformParcelId(parcelId): the error it throws, or the value it returns
transformParcelId(parcelId) ==
  LET parts == split(parcelId) IN
    IF tooFewParts(parts)
      THEN [threw |-> PascoValidationError(parcelId), value |-> <<>>]
      ELSE [threw |-> NoError, value |-> removeNonNumeric(joinDash(rearranged(parts)))]

(***************************************************************************)
(* ClayScraper.extractPropertyData (counties/clay.ts).  A text of several  *)
(* lines is the sequence of its lines.                                     *)
(***************************************************************************)
\* most owner blocks on an enumerated page
MaxBlocks == 3

\* div.three-column-blocks as the callback reads it: the owner name and the
\* three address spans, each cleaned, "" when absent or empty
OwnerBlocks ==
  [ownerName : {"", "JOHN DOE"},
   address1 : {"", "1 MAIN ST"},
   address2 : {"", "APT 2"},
   cityStateZip : {"", "ORANGE PARK FL"}]

\* the pages: up to n owner blocks in document order
RECURSIVE PagesUpTo(_)
PagesUpTo(n) ==
  IF n = 0 THEN {<<>>}
  ELSE LET shorter == PagesUpTo(n - 1) IN
         shorter \cup {Append(p, b) : p \in {q \in shorter : Len(q) = n - 1}, b \in OwnerBlocks}

ClayPages == PagesUpTo(MaxBlocks)

\* [address1, address2, cityStateZip].filter(part => part.length > 0).join('\n')
fullAddress(block) ==
  SelectSeq(<<block.address1, block.address2, block.cityStateZip>>, LAMBDA part : part # "")

\* the ownerNames array after the loop
RECURSIVE ownerNames(_)
ownerNames(blocks) ==
  IF blocks = <<>> THEN <<>>
  ELSE (IF blocks[1].ownerName # "" THEN <<blocks[1].ownerName>> ELSE <<>>)
         \o ownerNames(Tail(blocks))

\* the addresses array after the loop
RECURSIVE addresses(_)
addresses(blocks) ==
  IF blocks = <<>> THEN <<>>
  ELSE (IF fullAddress(blocks[1]) # <<>> THEN <<fullAddress(blocks[1])>> ELSE <<>>)
         \o addresses(Tail(blocks))

\* a spread that keeps every element
uniqueAddresses_KeepAll(items) == items

\* [...new Set(addresses)]: a Set keeps the first insertion of each value
RECURSIVE uniqueAddresses(_)
uniqueAddresses(items) ==
  IF items = <<>> THEN <<>>
  ELSE LET front == uniqueAddresses(SubSeq(items, 1, Len(items) - 1))
           last == items[Len(items)]
       IN IF \E i \in DOMAIN front : front[i] = last THEN front ELSE Append(front, last)

\* texts.join('\n'), each text being a sequence of lines
RECURSIVE joinLines(_)
joinLines(texts) ==
  IF texts = <<>> THEN <<>> ELSE texts[1] \o joinLines(Tail(texts))

\* what the page.evaluate callback returns
evaluateClayPage(blocks) ==
  [ownerName |-> ownerNames(blocks),
   mailingAddress |-> joinLines(uniqueAddresses(addresses(blocks)))]

NoClayData == [ownerName |-> <<>>, mailingAddress |-> <<>>]

(***************************************************************************)
(* The configuration cache (config/counties.ts)                            *)
(***************************************************************************)
\* most loadCountyConfigurations calls
MaxLookups == 4

\* contents the configuration file can have: two sets of counties, a JSON
\* document without `counties`, and a file that does not read or parse
FileVersions == {"v1", "v2", "nocounties", "broken"}

\* config.counties || {}
countiesOf(file) == IF file = "nocounties" THEN "{}" ELSE file

\* one call in the log: a lookup (did it read the file, what did it give or
\* "threw"), or a clear
LookupEntry(read, outcome) == [op |-> "lookup", read |-> read, outcome |-> outcome]
ClearEntry == [op |-> "clear", read |-> FALSE, outcome |-> "none"]

\* a cache test that never hits
cached_Never(cache) == FALSE

\* if (configCache)
cached(cache) == cache # "null"

\* number of entries of the log with the given operation
callCount(log, op) == Cardinality({i \in DOMAIN log : log[i].op = op})

(***************************************************************************)
(* Initial state: no scrape running, no getScraper call made               *)
(***************************************************************************)
Init ==
  /\ pc = [a \in Attempts |-> "idle"]
  /\ scraper = [a \in Attempts |-> "Base"]
  /\ browser = [a \in Attempts |-> 0]
  /\ thrown = [a \in Attempts |-> NoError]
  /\ candidate = [a \in Attempts |-> NoData]
  /\ result = [a \in Attempts |-> NoResult]
  /\ closeCalls = [a \in Attempts |-> 0]
  /\ trace = [a \in Attempts |-> <<>>]
  /\ sessions = [i \in SessionIds |-> NoSession]
  /\ callPc = [c \in Calls |-> "idle"]
  /\ callCounty = [c \in Calls |-> "polk"]
  /\ callResult = [c \in Calls |-> 0]
  /\ callBorn = [c \in Calls |-> 0]
  /\ callEpoch = [c \in Calls |-> 0]
  /\ callAfter = [c \in Calls |-> {}]
  /\ callThrown = [c \in Calls |-> NoError]
  /\ scraperCache = [k \in ConfigIds |-> 0]
  /\ instances = 0
  /\ everCached = [k \in ConfigIds |-> {}]
  /\ clears = 0
  /\ reqPc = [a \in Attempts |-> "idle"]
  /\ req = [a \in Attempts |-> NoRequest]
  /\ response = [a \in Attempts |-> NoResponse]
  /\ reqSteps = [a \in Attempts |-> <<>>]
  /\ textPc = "idle"
  /\ str1 = <<>>
  /\ str2 = <<>>
  /\ folded = <<>>
  /\ similarity = One
  /\ testPc = [a \in Attempts |-> "idle"]
  /\ testCase = [a \in Attempts |-> NoTestCase]
  /\ testResult = [a \in Attempts |-> NoTestResult]
  /\ batchPc = "idle"
  /\ batchInput = <<>>
  /\ results = <<>>
  /\ batchResult = NoBatchResult
  /\ identifier = [a \in Attempts |-> <<>>]
  /\ urls = [a \in Attempts |-> <<>>]
  /\ clayPc = "idle"
  /\ clayBlocks = <<>>
  /\ clayData = NoClayData
  /\ clayThrown = NoError
  /\ configCache = "null"
  /\ configFile = "v1"
  /\ configLog = <<>>

(***************************************************************************)
(* scrape(request): one action per awaited step of the try block, then the *)
(* catch block, then the finally block                                     *)
(***************************************************************************)
\* the error `e` leaves the try block of attempt a
Throw(a, e) ==
  /\ thrown' = [thrown EXCEPT ![a] = e]
  /\ pc' = [pc EXCEPT ![a] = "catch"]

\* scraper.scrape(request) is called on a scraper of kind k
StartScrape(a, k) ==
  /\ pc[a] = "idle"
  /\ scraper' = [scraper EXCEPT ![a] = k]
  /\ pc' = [pc EXCEPT ![a] = "setup"]
  /\ UNCHANGED <<browser, thrown, candidate, result, closeCalls, trace, sessions>>
  /\ UNCHANGED nonAttemptVars

\* browser = await this.setupBrowser()
SetupBrowser(a) ==
  /\ pc[a] = "setup"
  /\ trace' = [trace EXCEPT ![a] = Append(@, "acquire")]
  /\ \/ /\ browser' = [browser EXCEPT ![a] = freshSession]
        /\ sessions' = [sessions EXCEPT ![freshSession] =
                          [state |-> "open", openedBy |-> a, usedBy |-> {}, closedBy |-> {}]]
        /\ pc' = [pc EXCEPT ![a] = "createPage"]
        /\ UNCHANGED thrown
     \/ /\ Throw(a, PlainError("Browser launch failed"))
        /\ UNCHANGED <<browser, sessions>>
  /\ UNCHANGED <<scraper, candidate, result, closeCalls>>
  /\ UNCHANGED nonAttemptVars

\* const page = await createPage(browser)   (browser.newPage() and settings)
CreatePage(a) ==
  /\ pc[a] = "createPage"
  /\ sessions' = [sessions EXCEPT ![browser[a]].usedBy = @ \cup {a}]
  /\ \/ /\ pc' = [pc EXCEPT ![a] = "navigate"]
        /\ UNCHANGED thrown
     \/ Throw(a, DriverError("newPage", "net"))
  /\ UNCHANGED <<scraper, browser, candidate, result, closeCalls, trace>>
  /\ UNCHANGED nonAttemptVars

\* await this.navigateToSearch(page[, request])
NavigateToSearch(a) ==
  /\ pc[a] = "navigate"
  /\ trace' = [trace EXCEPT ![a] = Append(@, "navigate")]
  /\ sessions' = [sessions EXCEPT ![browser[a]].usedBy = @ \cup {a}]
  /\ \/ /\ pc' = [pc EXCEPT ![a] = afterNavigate(scraper[a])]
        /\ UNCHANGED thrown
     \/ \E fault \in DriverFaults : Throw(a, navigateError(scraper[a], fault))
  /\ UNCHANGED <<scraper, browser, candidate, result, closeCalls>>
  /\ UNCHANGED nonAttemptVars

\* await this.performSearch(page, request)   (BaseScraper.scrape only)
PerformSearch(a) ==
  /\ pc[a] = "search"
  /\ trace' = [trace EXCEPT ![a] = Append(@, "query")]
  /\ sessions' = [sessions EXCEPT ![browser[a]].usedBy = @ \cup {a}]
  /\ \/ /\ pc' = [pc EXCEPT ![a] = "wait"]
        /\ UNCHANGED thrown
     \/ Throw(a, ScraperError("SEARCH_FAILED", "Failed to perform search",
                              "Waiting failed: timeout exceeded"))
  /\ UNCHANGED <<scraper, browser, candidate, result, closeCalls>>
  /\ UNCHANGED nonAttemptVars

\* await this.waitForResults(page) / await page.waitForSelector(...) /
\* try { await page.waitForFunction(...) } catch { sleep }
WaitForResults(a) ==
  /\ pc[a] = "wait"
  /\ trace' = [trace EXCEPT ![a] = Append(@, "awaitStable")]
  /\ sessions' = [sessions EXCEPT ![browser[a]].usedBy = @ \cup {a}]
  /\ \/ /\ pc' = [pc EXCEPT ![a] = "extract"]
        /\ UNCHANGED thrown
     \/ \E hasSelector \in BOOLEAN :
          IF WaitMode(scraper[a]) = "swallow"
            THEN /\ pc' = [pc EXCEPT ![a] = "extract"]
                 /\ UNCHANGED thrown
            ELSE Throw(a, waitError(scraper[a], hasSelector))
  /\ UNCHANGED <<scraper, browser, candidate, result, closeCalls>>
  /\ UNCHANGED nonAttemptVars

\* const propertyData = await this.extractPropertyData(page, request)
ExtractPropertyData(a) ==
  /\ pc[a] = "extract"
  /\ trace' = [trace EXCEPT ![a] = Append(@, "extract")]
  /\ sessions' = [sessions EXCEPT ![browser[a]].usedBy = @ \cup {a}]
  /\ IF InheritsScrape(scraper[a])
       THEN \* the abstract hook: any record, or a classified error of its own
            \/ \E c \in Candidates :
                 /\ candidate' = [candidate EXCEPT ![a] = c]
                 /\ pc' = [pc EXCEPT ![a] = "validate"]
                 /\ UNCHANGED thrown
            \/ /\ Throw(a, createNoResultsError)
               /\ UNCHANGED candidate
       ELSE \/ \E d \in PageData :
                 LET r == countyExtract(scraper[a], d) IN
                   IF r.threw = NoError
                     THEN /\ candidate' = [candidate EXCEPT ![a] = r.data]
                          /\ pc' = [pc EXCEPT ![a] = "validate"]
                          /\ UNCHANGED thrown
                     ELSE /\ Throw(a, r.threw)
                          /\ UNCHANGED candidate
            \/ \* page.evaluate itself fails
               /\ Throw(a, hookRethrow(scraper[a], DriverError("evaluate", "net")))
               /\ UNCHANGED candidate
  /\ UNCHANGED <<scraper, browser, result, closeCalls>>
  /\ UNCHANGED nonAttemptVars

\* this.validatePropertyData(propertyData); return { success: true, ... }
ValidatePropertyData(a) ==
  /\ pc[a] = "validate"
  /\ trace' = [trace EXCEPT ![a] = Append(@, "validate")]
  /\ LET e == validatePropertyData(candidate[a]) IN
       IF e = NoError
         THEN /\ result' = [result EXCEPT ![a] = SuccessResult(candidate[a])]
              /\ pc' = [pc EXCEPT ![a] = "finally"]
              /\ UNCHANGED thrown
         ELSE /\ Throw(a, e)
              /\ UNCHANGED result
  /\ UNCHANGED <<scraper, browser, candidate, closeCalls, sessions>>
  /\ UNCHANGED nonAttemptVars

\* the value the catch block completes with: a failure result, or, where the
\* block reads the unbound `error`, a ReferenceError thrown out of it
catchBlock(k, e) ==
  IF CatchReadsUnbound(k) THEN Rejected(ReferenceError)
  ELSE FailureResult(ErrorInfo(toScraperError(e)))

\* catch (error) { ... return { success: false, ... } }
CatchBlock(a) ==
  /\ pc[a] = "catch"
  /\ result' = [result EXCEPT ![a] = catchBlock(scraper[a], thrown[a])]
  /\ pc' = [pc EXCEPT ![a] = "finally"]
  /\ UNCHANGED <<scraper, browser, thrown, candidate, closeCalls, trace, sessions>>
  /\ UNCHANGED nonAttemptVars

\* a finally block that forgets the session
mustClose_Leak(b) == FALSE

\* whether the finally block calls closeBrowser
mustClose(b) == b # 0

\* utils/browser.ts closeBrowser: browser.close(), its failure only logged
closeBrowser(a, b, closed) ==
  [sessions EXCEPT ![b] = [@ EXCEPT !.state = IF closed THEN "closed" ELSE @,
                                    !.closedBy = @ \cup {a}]]

\* finally { if (browser) await closeBrowser(browser) }, then scrape settles
FinallyBlock(a) ==
  /\ pc[a] = "finally"
  /\ IF mustClose(browser[a])
       THEN /\ \E closed \in BOOLEAN : sessions' = closeBrowser(a, browser[a], closed)
            /\ closeCalls' = [closeCalls EXCEPT ![a] = @ + 1]
            /\ trace' = [trace EXCEPT ![a] = Append(@, "release")]
       ELSE UNCHANGED <<sessions, closeCalls, trace>>
  /\ pc' = [pc EXCEPT ![a] = "done"]
  /\ UNCHANGED <<scraper, browser, thrown, candidate, result>>
  /\ UNCHANGED nonAttemptVars

\* the attempts the lifecycle specification runs
SoloAttempts == {1}

Next ==
  \E a \in SoloAttempts :
    \/ \E k \in ScraperKinds : StartScrape(a, k)
    \/ SetupBrowser(a)
    \/ CreatePage(a)
    \/ NavigateToSearch(a)
    \/ PerformSearch(a)
    \/ WaitForResults(a)
    \/ ExtractPropertyData(a)
    \/ ValidatePropertyData(a)
    \/ CatchBlock(a)
    \/ FinallyBlock(a)

Spec == Init /\ [][Next]_vars

(***************************************************************************)
(* ScraperFactory: getScraper(config) and clearScraperCache()              *)
(***************************************************************************)
\* the calls that have returned an instance
Returned == {c \in Calls : callPc[c] = "returned"}

\* getScraper up to its first await: a cache hit returns at once, a miss
\* suspends on import(...)
GetScraperBegin(c, county) ==
  /\ callPc[c] = "idle"
  /\ callCounty' = [callCounty EXCEPT ![c] = county]
  /\ callAfter' = [callAfter EXCEPT ![c] = Returned]
  /\ IF scraperCache[county] # 0
       THEN /\ callResult' = [callResult EXCEPT ![c] = scraperCache[county]]
            /\ callEpoch' = [callEpoch EXCEPT ![c] = clears]
            /\ callPc' = [callPc EXCEPT ![c] = "returned"]
       ELSE /\ callPc' = [callPc EXCEPT ![c] = "importing"]
            /\ UNCHANGED <<callResult, callEpoch>>
  /\ UNCHANGED <<callBorn, callThrown, scraperCache, instances, everCached, clears>>
  /\ UNCHANGED nonRegistryVars

\* the catch block of getScraper: binds _error, reads the unbound `error`
getScraperCatch(county, e) == ReferenceError

\* getScraper after import(...) settles: construct, check, cache, return
GetScraperResume(c) ==
  /\ callPc[c] = "importing"
  /\ LET county == callCounty[c]
         m == ModuleOf(county)
         fresh == instances + 1
     IN
       IF accepted(m)
         THEN /\ instances' = fresh
              /\ callBorn' = [callBorn EXCEPT ![c] = fresh]
              /\ scraperCache' = [scraperCache EXCEPT ![county] = fresh]
              /\ everCached' = [everCached EXCEPT ![county] = @ \cup {fresh}]
              /\ callResult' = [callResult EXCEPT ![c] = fresh]
              /\ callEpoch' = [callEpoch EXCEPT ![c] = clears]
              /\ callPc' = [callPc EXCEPT ![c] = "returned"]
              /\ UNCHANGED callThrown
         ELSE /\ callThrown' = [callThrown EXCEPT ![c] =
                   getScraperCatch(county, PlainError("Cannot find module"))]
              /\ callPc' = [callPc EXCEPT ![c] = "threw"]
              /\ instances' = IF constructed(m) THEN fresh ELSE instances
              /\ callBorn' = [callBorn EXCEPT ![c] = IF constructed(m) THEN fresh ELSE @]
              /\ UNCHANGED <<scraperCache, everCached, callResult, callEpoch>>
  /\ UNCHANGED <<callCounty, callAfter, clears>>
  /\ UNCHANGED nonRegistryVars

\* clearScraperCache()
ClearScraperCache ==
  /\ clears < MaxClears
  /\ clears' = clears + 1
  /\ scraperCache' = [k \in ConfigIds |-> 0]
  /\ everCached' = [k \in ConfigIds |-> {}]
  /\ UNCHANGED <<callPc, callCounty, callResult, callBorn, callEpoch, callAfter,
                 callThrown, instances>>
  /\ UNCHANGED nonRegistryVars

NextRegistry ==
  \/ \E c \in Calls, county \in Counties : GetScraperBegin(c, county)
  \/ \E c \in Calls : GetScraperResume(c)
  \/ ClearScraperCache

SpecRegistry == Init /\ [][NextRegistry]_vars

\* scrape() of attempt a has settled
Done(a) == pc[a] = "done"

(***************************************************************************)
(* POST /api/scrape: one action per stretch between two awaits             *)
(***************************************************************************)
\* POST(request) up to `await request.json()`: the API key check
Post(a, r) ==
  /\ reqPc[a] = "idle"
  /\ req' = [req EXCEPT ![a] = r]
  /\ reqSteps' = [reqSteps EXCEPT ![a] = <<"auth">>]
  /\ IF validateApiKey(r)
       THEN /\ reqPc' = [reqPc EXCEPT ![a] = "parse"]
            /\ UNCHANGED response
       ELSE /\ reqPc' = [reqPc EXCEPT ![a] = "done"]
            /\ response' = [response EXCEPT ![a] = createUnauthorizedResponse]
  /\ UNCHANGED nonRouteVars

\* request.json() settles; validateScrapeRequest; loadCountyConfig
PostResolve(a) ==
  /\ reqPc[a] = "parse"
  /\ LET r == req[a]
         e == loadCountyConfig(r.countyId)
     IN
       CASE r.body = "malformed" ->
              /\ reqSteps' = [reqSteps EXCEPT ![a] = @ \o <<"parse">>]
              /\ response' = [response EXCEPT ![a] =
                   errorResponse(PlainError("Unexpected token in JSON"), r.countyId)]
              /\ reqPc' = [reqPc EXCEPT ![a] = "done"]
         [] r.body = "invalid" ->
              /\ reqSteps' = [reqSteps EXCEPT ![a] = @ \o <<"parse", "validate">>]
              /\ response' = [response EXCEPT ![a] = validationResponse]
              /\ reqPc' = [reqPc EXCEPT ![a] = "done"]
         [] r.body = "valid" /\ e # NoError ->
              /\ reqSteps' = [reqSteps EXCEPT ![a] = @ \o <<"parse", "validate", "loadConfig">>]
              /\ response' = [response EXCEPT ![a] = errorResponse(e, r.countyId)]
              /\ reqPc' = [reqPc EXCEPT ![a] = "done"]
         [] r.body = "valid" /\ e = NoError ->
              /\ reqSteps' = [reqSteps EXCEPT ![a] = @ \o <<"parse", "validate", "loadConfig">>]
              /\ reqPc' = [reqPc EXCEPT ![a] = "getScraper"]
              /\ UNCHANGED response
  /\ UNCHANGED req
  /\ UNCHANGED nonRouteVars

\* const scraper = await getScraper(countyConfig): the call is made
PostGetScraper(a) ==
  /\ reqPc[a] = "getScraper"
  /\ GetScraperBegin(a, req[a].countyId)

\* getScraper has settled: go on to scrape, or land in the outer catch
PostScraperSettled(a) ==
  /\ reqPc[a] = "getScraper"
  /\ callPc[a] \in {"returned", "threw"}
  /\ IF callPc[a] = "threw"
       THEN /\ response' = [response EXCEPT ![a] =
                 errorResponse(callThrown[a], req[a].countyId)]
            /\ reqPc' = [reqPc EXCEPT ![a] = "done"]
       ELSE /\ reqPc' = [reqPc EXCEPT ![a] = "scrape"]
            /\ UNCHANGED response
  /\ UNCHANGED <<req, reqSteps>>
  /\ UNCHANGED nonRouteVars

\* const result = await scraper.scrape(scrapeRequest): the call is made
PostScrape(a) ==
  /\ reqPc[a] = "scrape"
  /\ StartScrape(a, KindOf(req[a].countyId))

\* scrape has settled: answer with the result, or land in the outer catch
PostRespond(a) ==
  /\ reqPc[a] = "scrape"
  /\ Done(a)
  /\ response' = [response EXCEPT ![a] =
       IF result[a].status = "threw"
         THEN errorResponse(result[a].thrown, req[a].countyId)
         ELSE resultResponse(result[a], req[a].countyId)]
  /\ reqPc' = [reqPc EXCEPT ![a] = "done"]
  /\ UNCHANGED <<req, reqSteps>>
  /\ UNCHANGED nonRouteVars

\* the steps of scrape() of attempt a, once it has been started
Lifecycle(a) ==
  \/ SetupBrowser(a)
  \/ CreatePage(a)
  \/ NavigateToSearch(a)
  \/ PerformSearch(a)
  \/ WaitForResults(a)
  \/ ExtractPropertyData(a)
  \/ ValidatePropertyData(a)
  \/ CatchBlock(a)
  \/ FinallyBlock(a)

NextRoute ==
  \E a \in SoloAttempts :
    \/ \E r \in Requests : Post(a, r)
    \/ PostResolve(a)
    \/ PostGetScraper(a)
    \/ GetScraperResume(a)
    \/ PostScraperSettled(a)
    \/ PostScrape(a)
    \/ Lifecycle(a)
    \/ PostRespond(a)

SpecRoute == Init /\ [][NextRoute]_vars

(***************************************************************************)
(* The comparison functions applied to enumerated texts                    *)
(***************************************************************************)
NormalizeText(text) ==
  /\ textPc = "idle"
  /\ str1' = text
  /\ folded' = normalizeText(text)
  /\ textPc' = "folded"
  /\ UNCHANGED <<str2, similarity>>
  /\ UNCHANGED nonTextVars

CalculateSimilarity(a, b) ==
  /\ textPc = "idle"
  /\ str1' = a
  /\ str2' = b
  /\ similarity' = calculateSimilarity(a, b)
  /\ textPc' = "compared"
  /\ UNCHANGED folded
  /\ UNCHANGED nonTextVars

\* normalizeText is applied to one of the enumerated texts
ApplyNormalizeText ==
  /\ textPc = "idle"
  /\ \E text \in Texts : NormalizeText(text)

\* calculateSimilarity is applied to one of the enumerated pairs
ApplyCalculateSimilarity ==
  /\ textPc = "idle"
  /\ \E p \in TextPairs : CalculateSimilarity(p[1], p[2])

NextText ==
  \/ ApplyNormalizeText
  \/ ApplyCalculateSimilarity

SpecText == Init /\ [][NextText]_vars

(***************************************************************************)
(* runTestCase(testCase): one action per stretch between two awaits        *)
(***************************************************************************)
\* runTestCase up to `await getScraper(...)`: loadCountyConfig
RunTestCase(a, tc) ==
  /\ testPc[a] = "idle"
  /\ testCase' = [testCase EXCEPT ![a] = tc]
  /\ LET e == loadCountyConfig(tc.countyId) IN
       IF e # NoError
         THEN /\ testResult' = [testResult EXCEPT ![a] = caughtResult(e)]
              /\ testPc' = [testPc EXCEPT ![a] = "done"]
         ELSE /\ testPc' = [testPc EXCEPT ![a] = "getScraper"]
              /\ UNCHANGED testResult
  /\ UNCHANGED nonTestVars

\* const scraper = await getScraper(countyConfig): the call is made
TestGetScraper(a) ==
  /\ testPc[a] = "getScraper"
  /\ GetScraperBegin(a, testCase[a].countyId)

\* getScraper has settled: go on to scrape, or land in the catch block
TestScraperSettled(a) ==
  /\ testPc[a] = "getScraper"
  /\ callPc[a] \in {"returned", "threw"}
  /\ IF callPc[a] = "threw"
       THEN /\ testResult' = [testResult EXCEPT ![a] = caughtResult(callThrown[a])]
            /\ testPc' = [testPc EXCEPT ![a] = "done"]
       ELSE /\ testPc' = [testPc EXCEPT ![a] = "scrape"]
            /\ UNCHANGED testResult
  /\ UNCHANGED testCase
  /\ UNCHANGED nonTestVars

\* const scrapeResult = await scraper.scrape(request): the call is made
TestScrape(a) ==
  /\ testPc[a] = "scrape"
  /\ StartScrape(a, KindOf(testCase[a].countyId))

\* scrape has settled: the failure result, the assertions, or the catch block
TestAssert(a) ==
  /\ testPc[a] = "scrape"
  /\ Done(a)
  /\ testResult' = [testResult EXCEPT ![a] =
       CASE result[a].status = "threw" -> caughtResult(result[a].thrown)
         [] result[a].status = "failure" -> failedScrapeResult(result[a].error)
         [] result[a].status = "success" -> assertedResult(result[a].data, testCase[a])]
  /\ testPc' = [testPc EXCEPT ![a] = "done"]
  /\ UNCHANGED testCase
  /\ UNCHANGED nonTestVars

NextTest ==
  \E a \in SoloAttempts :
    \/ \E tc \in TestCases : RunTestCase(a, tc)
    \/ TestGetScraper(a)
    \/ GetScraperResume(a)
    \/ TestScraperSettled(a)
    \/ TestScrape(a)
    \/ Lifecycle(a)
    \/ TestAssert(a)

SpecTest == Init /\ [][NextTest]_vars

(***************************************************************************)
(* runTestCases (testing/TestRunner.ts): case i runs in attempt slot i     *)
(***************************************************************************)
\* what runTestCases itself leaves alone
nonBatchVars ==
  <<attemptVars, registryVars, routeVars, textVars, testVars, pascoVars, clayVars, configVars>>

\* runTestCases(testCases) is called: const results = []
RunTestCases(cases) ==
  /\ batchPc = "idle"
  /\ batchInput' = cases
  /\ batchPc' = "running"
  /\ UNCHANGED <<results, batchResult>>
  /\ UNCHANGED nonBatchVars

\* for (const testCase of testCases) { const result = await runTestCase(testCase):
\* the call for case i is made
BatchRunCase(i) ==
  /\ batchPc = "running"
  /\ i \in DOMAIN batchInput
  /\ mayStart(i, results)
  /\ RunTestCase(i, batchInput[i])

\* results.push(result), once runTestCase for case i has settled
BatchPush(i) ==
  /\ batchPc = "running"
  /\ i = Len(results) + 1
  /\ testPc[i] = "done"
  /\ results' = Append(results, testResult[i])
  /\ UNCHANGED <<batchPc, batchInput, batchResult>>
  /\ UNCHANGED nonBatchVars

\* after the loop: count and return the BatchTestResult
BatchReturn ==
  /\ batchPc = "running"
  /\ Len(results) = Len(batchInput)
  /\ batchResult' = [totalTests |-> Len(batchInput),
                     passedTests |-> passedTests(results),
                     failedTests |-> failedTests(results),
                     results |-> results]
  /\ batchPc' = "returned"
  /\ UNCHANGED <<batchInput, results>>
  /\ UNCHANGED nonBatchVars

\* runTestCases is called with some sequence of cases
StartBatch ==
  /\ batchPc = "idle"
  /\ \E cases \in BatchInputs : RunTestCases(cases)

NextBatch ==
  \/ StartBatch
  \/ \E i \in Attempts :
       \/ BatchRunCase(i)
       \/ TestGetScraper(i)
       \/ GetScraperResume(i)
       \/ TestScraperSettled(i)
       \/ TestScrape(i)
       \/ Lifecycle(i)
       \/ TestAssert(i)
       \/ BatchPush(i)
  \/ BatchReturn

SpecBatch == Init /\ [][NextBatch]_vars

\* the steps of a batch run other than the return of await scraper.scrape
BatchSteps ==
  \/ StartBatch
  \/ \E i \in Attempts :
       \/ BatchRunCase(i)
       \/ TestGetScraper(i)
       \/ GetScraperResume(i)
       \/ TestScraperSettled(i)
       \/ TestScrape(i)
       \/ Lifecycle(i)
       \/ BatchPush(i)
  \/ BatchReturn

\* runTestCase resumes once await scraper.scrape(request) has settled: the
\* step TestAssert takes, told by the position it leaves
ScrapeAwaited(i) ==
  /\ testPc[i] = "scrape"
  /\ Done(i)
  /\ testPc' = [testPc EXCEPT ![i] = "done"]

\* every continuation the event loop holds is run, and every awaited driver
\* call settles, so a step that can be taken is eventually taken
SpecBatchFair ==
  /\ SpecBatch
  /\ WF_vars(BatchSteps)
  /\ WF_testPc(\E i \in Attempts : ScrapeAwaited(i))

(***************************************************************************)
(* Properties of scrape()                                                  *)
(***************************************************************************)

\* the attempt's browser launch succeeded
Launched(a) == \E i \in SessionIds : sessions[i].openedBy = a

HasNonEmptyOwner(d) == \E i \in DOMAIN d.ownerNames : d.ownerNames[i] # ""

\* C1: scrape(request) always completes by returning a ScrapeResult (success
\* or failure), for every scraper and a failure at any phase; it never
\* throws or rejects to its caller.
C1_ScrapeNeverThrows ==
  \A a \in Attempts : Done(a) => result[a].status \in {"success", "failure"}

\* C2 (as stated): whatever phase failed, and on success, closeBrowser has
\* been invoked exactly once by the time scrape completes.
C2_ClosedExactlyOnce ==
  \A a \in Attempts : Done(a) => closeCalls[a] = 1

\* C2 (amended): closeBrowser is never invoked twice by one attempt; when
\* scrape completes after a successful browser launch it has been invoked
\* exactly once, on the session that attempt opened; when the launch itself
\* failed there is no session and it has been invoked zero times.
C2_ClosedOnceIfLaunched ==
  \A a \in Attempts :
    /\ closeCalls[a] <= 1
    /\ Done(a) /\ Launched(a) =>
         /\ closeCalls[a] = 1
         /\ \A i \in SessionIds : sessions[i].openedBy = a => sessions[i].closedBy = {a}
    /\ Done(a) /\ ~Launched(a) => closeCalls[a] = 0

\* a failure after the launch (here: in the search phase) was followed by
\* exactly one closeBrowser
C2_Witness ==
  \E a \in Attempts :
    /\ Done(a) /\ Launched(a) /\ closeCalls[a] = 1
    /\ result[a].status = "failure" /\ result[a].error.code = "SEARCH_FAILED"

\* C3: every result with success = true carries a record with at least one
\* non-empty owner name and a non-empty mailing address.
C3_SuccessHasOwnerAndAddress ==
  \A a \in Attempts :
    result[a].status = "success" =>
      /\ HasNonEmptyOwner(result[a].data)
      /\ result[a].data.mailingAddress # ""

\* C4: when the extract hook yields a record that lacks required data, the
\* outcome is a failure with code NO_RESULTS_FOUND if it has no owner name at
\* all, and EXTRACTION_FAILED if an owner is present but the address missing.
C4_MissingDataCodes ==
  \A a \in Attempts :
    Done(a) /\ candidate[a] # NoData =>
      /\ candidate[a].ownerNames = <<>> =>
           result[a].status = "failure" /\ result[a].error.code = "NO_RESULTS_FOUND"
      /\ HasNonEmptyOwner(candidate[a]) /\ candidate[a].mailingAddress = "" =>
           result[a].status = "failure" /\ result[a].error.code = "EXTRACTION_FAILED"

\* the fixed lifecycle order
PhaseRank(p) ==
  CASE p = "acquire" -> 1 [] p = "navigate" -> 2 [] p = "query" -> 3
    [] p = "awaitStable" -> 4 [] p = "extract" -> 5 [] p = "validate" -> 6
    [] p = "release" -> 7

PhasesRun(a) == {trace[a][i] : i \in DOMAIN trace[a]}

InLifecycleOrder(a) ==
  \A i, j \in DOMAIN trace[a] : i < j => PhaseRank(trace[a][i]) < PhaseRank(trace[a][j])

\* C5 (as stated): the phases run strictly in lifecycle order, and on a
\* successful attempt of any scraper none but the query phase is skipped.
C5_OrderedNoneSkipped ==
  \A a \in Attempts :
    /\ InLifecycleOrder(a)
    /\ Done(a) /\ result[a].status = "success" =>
         {"acquire", "navigate", "awaitStable", "extract", "validate", "release"}
           \subseteq PhasesRun(a)

\* C5 (amended): the phases that run do so strictly in lifecycle order; a
\* successful attempt has run acquire, navigate, extract, validate and
\* release; the base lifecycle skips no phase at all, while a scraper that
\* overrides scrape runs no query phase and may run no await-stable phase.
C5_OrderedCoreNotSkipped ==
  \A a \in Attempts :
    /\ InLifecycleOrder(a)
    /\ Done(a) /\ result[a].status = "success" =>
         /\ {"acquire", "navigate", "extract", "validate", "release"} \subseteq PhasesRun(a)
         /\ InheritsScrape(scraper[a]) => {"query", "awaitStable"} \subseteq PhasesRun(a)
         /\ ~InheritsScrape(scraper[a]) => "query" \notin PhasesRun(a)

\* a successful attempt of a scraper that overrides scrape and has no
\* await-stable phase
C5_Witness ==
  \E a \in Attempts :
    /\ Done(a) /\ result[a].status = "success"
    /\ trace[a] = <<"acquire", "navigate", "extract", "validate", "release">>

\* C6: an error from inside the attempt that is no ScraperError becomes a
\* failure with code UNKNOWN_ERROR whose details carry the original error; a
\* ScraperError keeps its code, message and details.
C6_ErrorsClassified ==
  \A a \in Attempts :
    Done(a) /\ thrown[a] # NoError =>
      /\ result[a].status = "failure"
      /\ thrown[a].cls = "ScraperError" => result[a].error = ErrorInfo(thrown[a])
      /\ thrown[a].cls # "ScraperError" =>
           /\ result[a].error.code = "UNKNOWN_ERROR"
           /\ result[a].error.details = thrown[a].message

\* C7: when navigation throws because the page cannot be opened, the outcome
\* is a failure with code NAVIGATION_FAILED.
C7_NavigationFailedCode ==
  \A a \in Attempts :
    Done(a) /\ thrown[a] = navigateError(scraper[a], "net") =>
      result[a].status = "failure" /\ result[a].error.code = "NAVIGATION_FAILED"

\* C8: when navigation or the readiness wait exceeds its deadline, the
\* outcome is a failure with code TIMEOUT or PAGE_LOAD_TIMEOUT and the
\* browser session is released.
C8_DeadlineCodes ==
  \A a \in Attempts :
    Done(a) /\ thrown[a] \in {navigateError(scraper[a], "timeout")}
                               \cup {waitError(scraper[a], h) : h \in BOOLEAN} =>
      /\ result[a].status = "failure"
      /\ result[a].error.code \in {"TIMEOUT", "PAGE_LOAD_TIMEOUT"}
      /\ closeCalls[a] = 1

(***************************************************************************)
(* Properties of the strategy registry                                     *)
(***************************************************************************)
\* C9: under any interleaving of getScraper calls for the same unseen id,
\* once an instance has been stored, every call returning afterwards returns
\* it and the cached entry is never replaced by a different instance.
C9_CacheEntryNeverReplaced ==
  /\ \A k \in Counties : Cardinality(everCached[k]) <= 1
  /\ \A c1, c2 \in Returned :
       callCounty[c1] = callCounty[c2] /\ callEpoch[c1] = callEpoch[c2]
         => callResult[c1] = callResult[c2]

\* C10: two successive getScraper calls for the same id with no
\* clearScraperCache between them return the same instance, and the second
\* constructs none.
C10_SuccessiveCallsSameInstance ==
  \A c1, c2 \in Returned :
    /\ callCounty[c1] = callCounty[c2]
    /\ c1 \in callAfter[c2]
    /\ callEpoch[c1] = callEpoch[c2]
    => callResult[c1] = callResult[c2] /\ callBorn[c2] = 0

(***************************************************************************)
(* Properties of POST /api/scrape                                          *)
(***************************************************************************)
\* the handler of request a got as far as looking up the county
ReachedLookup(a) == \E i \in DOMAIN reqSteps[a] : reqSteps[a][i] = "loadConfig"

\* request a caused no getScraper call, no scraper, no cache entry, no scrape
\* attempt and no browser session
NothingStarted(a) ==
  /\ callPc[a] = "idle" /\ callBorn[a] = 0 /\ instances = 0
  /\ \A k \in ConfigIds : scraperCache[k] = 0
  /\ pc[a] = "idle" /\ ~Launched(a)

\* C11: a request naming a county id absent from the configuration fails
\* with COUNTY_NOT_FOUND, and one naming a county whose entry has
\* enabled=false fails with COUNTY_DISABLED; in both cases no scraper is
\* constructed or cached and no browser session is opened.
C11_UnknownOrDisabledCounty ==
  \A a \in Attempts :
    reqPc[a] = "done" /\ ReachedLookup(a) =>
      /\ req[a].countyId \notin ConfigIds =>
           response[a].code = "COUNTY_NOT_FOUND" /\ NothingStarted(a)
      /\ req[a].countyId \in ConfigIds /\ ~Enabled(req[a].countyId) =>
           response[a].code = "COUNTY_DISABLED" /\ NothingStarted(a)

\* C12: an error response has status 404 when its code is COUNTY_NOT_FOUND
\* or COUNTY_DISABLED and status 500 for every other error code, and carries
\* the error's code, message and details together with metadata.
C12_StatusByErrorKind ==
  \A a \in Attempts :
    reqPc[a] = "done" /\ response[a].code \in ErrorCode =>
      /\ response[a].status =
           IF response[a].code \in {"COUNTY_NOT_FOUND", "COUNTY_DISABLED"} THEN 404 ELSE 500
      /\ response[a].message # "none"
      /\ response[a].metadata # "none"

\* C13: when an API key is configured, every request that presents it
\* neither in the X-API-Key header nor in the apiKey query parameter is
\* answered 401 before the body is parsed, the configuration looked up or a
\* browser opened.
C13_KeyRequired ==
  \A a \in Attempts :
    /\ reqPc[a] # "idle"
    /\ req[a].configuredApiKey # ""
    /\ req[a].headerApiKey # req[a].configuredApiKey
    /\ req[a].queryApiKey # req[a].configuredApiKey
    => /\ reqPc[a] = "done"
       /\ response[a].status = 401
       /\ reqSteps[a] = <<"auth">>
       /\ NothingStarted(a)

\* the county's scraper module has no default export, or exports something
\* whose instances are no BaseScraper
Malformed(county) == ModuleOf(county) \in {"noDefault", "notBase"}

\* C14: getScraper for a county whose module is malformed fails during
\* resolution: it returns no scraper and leaves the cache without an entry
\* for the county, no scrape attempt starts, no browser session is opened,
\* and the request is answered with an error.
C14_MalformedModuleFailsAtResolution ==
  \A a \in Attempts :
    callPc[a] # "idle" /\ Malformed(callCounty[a]) =>
      /\ callPc[a] \in {"importing", "threw"}
      /\ callResult[a] = 0
      /\ scraperCache[callCounty[a]] = 0
      /\ pc[a] = "idle" /\ ~Launched(a)
      /\ reqPc[a] = "done" => callPc[a] = "threw" /\ response[a].status = 500

\* a request for a county whose module exports a class that is no
\* BaseScraper: the object was constructed, rejected, and the request failed
C14_Witness ==
  \E a \in Attempts :
    /\ reqPc[a] = "done" /\ callPc[a] = "threw"
    /\ ModuleOf(callCounty[a]) = "notBase" /\ callBorn[a] # 0
    /\ response[a].code = "UNKNOWN_ERROR"

(***************************************************************************)
(* Properties of the comparison functions                                  *)
(***************************************************************************)
\* C15: normalizeText is idempotent: folding a folded text changes nothing.
C15_FoldIdempotent ==
  textPc = "folded" => normalizeText(folded) = folded

\* punctuation characters of the alphabet
Punctuation == {".", "_"}

\* the two texts differ only in letter case and in punctuation characters
DifferOnlyInCaseAndPunctuation(a, b) ==
  SelectSeq(toLowerCase(a), LAMBDA c : c \notin Punctuation)
    = SelectSeq(toLowerCase(b), LAMBDA c : c \notin Punctuation)

\* C16: the similarity of two texts that differ only in letter case and in
\* punctuation characters is 1.0.
C16_CaseAndPunctuationIgnored ==
  textPc = "compared" /\ DifferOnlyInCaseAndPunctuation(str1, str2) =>
    similarity.num = similarity.den

\* the minimum number of single-character insertions, deletions and
\* substitutions that turn a into b
RECURSIVE editDistance(_, _)
editDistance(a, b) ==
  IF a = <<>> THEN Len(b)
  ELSE IF b = <<>> THEN Len(a)
  ELSE Min3(editDistance(Tail(a), b) + 1,
            editDistance(a, Tail(b)) + 1,
            editDistance(Tail(a), Tail(b)) + (IF Head(a) = Head(b) THEN 0 ELSE 1))

\* the reference value of the similarity
referenceSimilarity(a, b) ==
  LET fa == normalizeText(a)
      fb == normalizeText(b)
      longer == IF Len(fa) >= Len(fb) THEN Len(fa) ELSE Len(fb)
  IN IF fa = fb THEN One ELSE Ratio(longer - editDistance(fa, fb), longer)

\* C17: calculateSimilarity returns the reference value: 1.0 when the folded
\* texts are equal (so for a text and itself, and when both fold to the empty
\* text), otherwise 1 - d / max(len) with d the edit distance of the folded
\* texts; for "JOHN DOE" and "JANE DOE" the value is below 0.8.
C17_SimilarityIsReference ==
  textPc = "compared" =>
    /\ similarity.den > 0
    /\ similarity.num * referenceSimilarity(str1, str2).den
         = referenceSimilarity(str1, str2).num * similarity.den
    /\ str1 = str2 => similarity.num = similarity.den
    /\ normalizeText(str1) = <<>> /\ normalizeText(str2) = <<>> =>
         similarity.num = similarity.den
    /\ str1 = Chars("JOHN DOE") /\ str2 = Chars("JANE DOE") => ~meetsThreshold(similarity)

\* "JOHN DOE" against "JANE DOE": three substitutions in eight characters
C17_Witness ==
  /\ textPc = "compared"
  /\ str1 = Chars("JOHN DOE") /\ str2 = Chars("JANE DOE")
  /\ similarity = Ratio(5, 8)

\* C18: calculateSimilarity is symmetric in its two arguments.
C18_SimilaritySymmetric ==
  textPc = "compared" => similarity = calculateSimilarity(str2, str1)

\* two texts whose folds differ in length
C18_Witness ==
  /\ textPc = "compared"
  /\ str1 = Chars("JOHN DOE") /\ str2 = Chars("JOHN B DOE")
  /\ similarity = Ratio(8, 10)

\* C19: calculateSimilarity lies in [0, 1]: the distance of the folded texts
\* never exceeds the length of the longer one.
C19_SimilarityInUnitInterval ==
  textPc = "compared" =>
    /\ similarity.den > 0
    /\ 0 <= similarity.num /\ similarity.num <= similarity.den
    /\ levenshteinDistance(normalizeText(str1), normalizeText(str2))
         <= maxLength(normalizeText(str1), normalizeText(str2))

\* two texts with no character in common: similarity 0
C19_Witness ==
  /\ textPc = "compared"
  /\ Len(str1) = 2 /\ Len(str2) = 2
  /\ similarity = Ratio(0, 2)

(***************************************************************************)
(* Properties of runTestCase                                               *)
(***************************************************************************)
\* every assertion of the result passed
AllAssertionsPassed(r) == \A i \in DOMAIN r.assertions : r.assertions[i].passed

\* each assertion's passed flag is true exactly when its similarity is >= 0.8
FlagsFollowThreshold(r) ==
  \A i \in DOMAIN r.assertions :
    r.assertions[i].passed <=> 10 * r.assertions[i].similarity.num
                                 >= 8 * r.assertions[i].similarity.den

\* C20 (as stated): in every TestResult each assertion's passed flag is true
\* exactly when its similarity is at least 0.8, and the result's passed is
\* true if and only if every one of its assertions passed.
C20_PassedIffAllAssertionsPass ==
  \A a \in Attempts :
    testPc[a] = "done" =>
      /\ FlagsFollowThreshold(testResult[a])
      /\ testResult[a].passed <=> AllAssertionsPassed(testResult[a])

\* C20 (amended): each assertion's passed flag is true exactly when its
\* similarity is at least 0.8; when the scrape succeeded the result has the
\* two assertions and passed is true iff both passed; when the scrape failed
\* or threw, the result has no assertions and passed is false.
C20_PassedIffScrapedAndAllPass ==
  \A a \in Attempts :
    testPc[a] = "done" =>
      /\ FlagsFollowThreshold(testResult[a])
      /\ testResult[a].passed <=>
           testResult[a].scrapeSuccess /\ AllAssertionsPassed(testResult[a])
      /\ testResult[a].scrapeSuccess => Len(testResult[a].assertions) = 2
      /\ ~testResult[a].scrapeSuccess =>
           testResult[a].assertions = <<>> /\ ~testResult[a].passed

\* a successful scrape whose owner name sits exactly on the threshold and
\* passes while the address fails: the test case fails
C20_Witness ==
  \E a \in Attempts :
    /\ testPc[a] = "done" /\ testResult[a].scrapeSuccess
    /\ testResult[a].assertions[1].similarity = Ratio(8, 10)
    /\ testResult[a].assertions[1].passed
    /\ ~testResult[a].assertions[2].passed
    /\ ~testResult[a].passed

(***************************************************************************)
(* PascoScraper.scrape (counties/osceola.ts): the lifecycle of the other   *)
(* overrides, with Pasco's own navigateToSearch                            *)
(***************************************************************************)
\* scraper.scrape(request) is called on the Pasco scraper
PascoScrape(a, id) ==
  /\ pc[a] = "idle"
  /\ scraper' = [scraper EXCEPT ![a] = "Pasco"]
  /\ identifier' = [identifier EXCEPT ![a] = id]
  /\ pc' = [pc EXCEPT ![a] = "setup"]
  /\ UNCHANGED <<browser, thrown, candidate, result, closeCalls, trace, sessions, urls>>
  /\ UNCHANGED <<registryVars, routeVars, textVars, testVars, batchVars, clayVars, configVars>>

\* await this.navigateToSearch(page, request): transform, build the URL, goto
PascoNavigateToSearch(a) ==
  /\ pc[a] = "navigate"
  /\ scraper[a] = "Pasco"
  /\ trace' = [trace EXCEPT ![a] = Append(@, "navigate")]
  /\ LET t == transformParcelId(identifier[a]) IN
       IF t.threw # NoError
         THEN /\ Throw(a, t.threw)
              /\ UNCHANGED <<urls, sessions>>
         ELSE /\ urls' = [urls EXCEPT ![a] = Append(@, t.value)]
              /\ sessions' = [sessions EXCEPT ![browser[a]].usedBy = @ \cup {a}]
              /\ \/ /\ pc' = [pc EXCEPT ![a] = "wait"]
                    /\ UNCHANGED thrown
                 \/ \E fault \in DriverFaults : Throw(a, DriverError("goto", fault))
  /\ UNCHANGED <<scraper, browser, candidate, result, closeCalls, identifier>>
  /\ UNCHANGED <<registryVars, routeVars, textVars, testVars, batchVars, clayVars, configVars>>

\* a request with some identifier arrives at an idle attempt slot
PascoRequest(a) ==
  /\ pc[a] = "idle"
  /\ \E id \in Identifiers : PascoScrape(a, id)

NextPasco ==
  \E a \in SoloAttempts :
    \/ PascoRequest(a)
    \/ SetupBrowser(a)
    \/ CreatePage(a)
    \/ PascoNavigateToSearch(a)
    \/ WaitForResults(a)
    \/ ExtractPropertyData(a)
    \/ ValidatePropertyData(a)
    \/ CatchBlock(a)
    \/ FinallyBlock(a)

SpecPasco == Init /\ [][NextPasco]_vars

(***************************************************************************)
(* Concurrent attempts: scrape called again while earlier calls are still  *)
(* in flight, on the one cached scraper instance of a county               *)
(***************************************************************************)
\* the scraper the concurrent calls are made on
SharedScraper == "Alachua"

\* one more call of scrape is made while the earlier ones may still be
\* running; the calls are numbered in the order they are made
ConcurrentScrape(a) ==
  /\ \A b \in Attempts : b < a => pc[b] # "idle"
  /\ StartScrape(a, SharedScraper)

NextConcurrent ==
  \E a \in Attempts :
    \/ ConcurrentScrape(a)
    \/ SetupBrowser(a)
    \/ CreatePage(a)
    \/ NavigateToSearch(a)
    \/ WaitForResults(a)
    \/ ExtractPropertyData(a)
    \/ ValidatePropertyData(a)
    \/ CatchBlock(a)
    \/ FinallyBlock(a)

SpecConcurrent == Init /\ [][NextConcurrent]_vars

(***************************************************************************)
(* ClayScraper.extractPropertyData (counties/clay.ts)                      *)
(***************************************************************************)
\* what extractPropertyData of Clay leaves alone
nonClayVars ==
  <<attemptVars, registryVars, routeVars, textVars, testVars, batchVars, pascoVars, configVars>>

\* const data = await page.evaluate(...) on a page with the given blocks
ClayEvaluate(blocks) ==
  /\ clayPc = "idle"
  /\ clayBlocks' = blocks
  /\ clayData' = evaluateClayPage(blocks)
  /\ clayPc' = "evaluated"
  /\ UNCHANGED clayThrown
  /\ UNCHANGED nonClayVars

\* the property page of some parcel is evaluated
ClayReadPage ==
  /\ clayPc = "idle"
  /\ \E blocks \in ClayPages : ClayEvaluate(blocks)

\* if (!data.ownerName) throw ...; if (!data.mailingAddress) throw ...; return
ClayCheckData ==
  /\ clayPc = "evaluated"
  /\ IF clayData.ownerName = <<>>
       THEN /\ clayThrown' = createNoResultsError
            /\ clayPc' = "threw"
       ELSE IF clayData.mailingAddress = <<>>
         THEN /\ clayThrown' = ScraperError("EXTRACTION_FAILED",
                                            "Failed to extract mailing address", "undefined")
              /\ clayPc' = "threw"
         ELSE /\ clayPc' = "returned"
              /\ UNCHANGED clayThrown
  /\ UNCHANGED <<clayBlocks, clayData>>
  /\ UNCHANGED nonClayVars

NextClay == ClayReadPage \/ ClayCheckData

SpecClay == Init /\ [][NextClay]_vars

(***************************************************************************)
(* The configuration cache (config/counties.ts)                            *)
(***************************************************************************)
\* what the configuration cache functions leave alone
nonConfigVars ==
  <<attemptVars, registryVars, routeVars, textVars, testVars, batchVars, pascoVars, clayVars>>

\* loadCountyConfigurations()
LoadCountyConfigurations ==
  /\ callCount(configLog, "lookup") < MaxLookups
  /\ IF cached(configCache)
       THEN /\ configLog' = Append(configLog, LookupEntry(FALSE, configCache))
            /\ UNCHANGED configCache
       ELSE IF configFile = "broken"
         THEN /\ configLog' = Append(configLog, LookupEntry(TRUE, "threw"))
              /\ UNCHANGED configCache
         ELSE /\ configCache' = countiesOf(configFile)
              /\ configLog' = Append(configLog, LookupEntry(TRUE, countiesOf(configFile)))
  /\ UNCHANGED configFile
  /\ UNCHANGED nonConfigVars

\* clearConfigCache()
ClearConfigCache ==
  /\ callCount(configLog, "clear") < MaxClears
  /\ configCache' = "null"
  /\ configLog' = Append(configLog, ClearEntry)
  /\ UNCHANGED configFile
  /\ UNCHANGED nonConfigVars

\* config/counties.json is rewritten between two calls
EditConfigFile ==
  /\ \E v \in FileVersions \ {configFile} : configFile' = v
  /\ UNCHANGED <<configCache, configLog>>
  /\ UNCHANGED nonConfigVars

NextConfig == LoadCountyConfigurations \/ ClearConfigCache \/ EditConfigFile

SpecConfig == Init /\ [][NextConfig]_vars

(***************************************************************************)
(* Properties of runTestCase on a failed scrape                            *)
(***************************************************************************)
\* the classified error of the scrape of test slot a: the error resolving the
\* jurisdiction gave, or the ScraperError form of what the attempt raised
classifiedError(a) ==
  IF loadCountyConfig(testCase[a].countyId) # NoError
    THEN loadCountyConfig(testCase[a].countyId)
    ELSE toScraperError(thrown[a])

\* the scrape of test slot a failed: the jurisdiction did not resolve, or the
\* attempt ended on an error
ScrapeFailed(a) ==
  /\ testPc[a] = "done"
  /\ \/ loadCountyConfig(testCase[a].countyId) # NoError
     \/ Done(a) /\ thrown[a] # NoError

\* C21: when the scrape for a test case fails (the scraper returns a failure
\* outcome, or the jurisdiction cannot be resolved), the TestResult has
\* passed = false, no assertions, and the classified error of the scrape in
\* its error.
C21_FailedScrapeSurfaced ==
  \A a \in Attempts :
    ScrapeFailed(a) =>
      /\ ~testResult[a].passed
      /\ testResult[a].assertions = <<>>
      /\ testResult[a].error = classifiedError(a).message

(***************************************************************************)
(* Properties of runTestCases                                              *)
(***************************************************************************)
\* no case has been started before the result of the case before it was pushed
OneAtATime ==
  \A i, j \in Attempts :
    i < j /\ testPc[j] # "idle" => testPc[i] = "done" /\ Len(results) >= i

\* the sessions some attempt holds: launched, closeBrowser not yet called
HeldSessions == {s \in SessionIds : sessions[s].state = "open" /\ sessions[s].closedBy = {}}

\* the sessions not closed
OpenSessions == {s \in SessionIds : sessions[s].state = "open"}

\* C22 (as stated): the scrape of case i+1 does not start until the
\* TestResult of case i is complete, so at most one browser session is open
\* at any moment of a batch run.
C22_AtMostOneSessionOpen ==
  OneAtATime /\ Cardinality(OpenSessions) <= 1

\* C22 (amended): the scrape of case i+1 does not start until the TestResult
\* of case i is complete, so at most one browser session is held by a
\* running attempt at any moment; a session whose close failed may stay open.
C22_AtMostOneSessionHeld ==
  OneAtATime /\ Cardinality(HeldSessions) <= 1

\* the second case holds a session after the first case closed its own
C22_Witness ==
  /\ batchPc = "running"
  /\ Len(results) = 1
  /\ \E s \in SessionIds : sessions[s].openedBy = 1 /\ sessions[s].state = "closed"
  /\ \E s \in HeldSessions : sessions[s].openedBy = 2

\* C23: runTestCases returns totalTests equal to the number of input cases,
\* passedTests equal to the number of results that passed, passedTests +
\* failedTests = totalTests, and results[i] is the result of input case i.
C23_TotalsAndOrder ==
  batchPc = "returned" =>
    /\ batchResult.totalTests = Len(batchInput)
    /\ batchResult.passedTests =
         Cardinality({i \in DOMAIN batchResult.results : batchResult.results[i].passed})
    /\ batchResult.passedTests + batchResult.failedTests = batchResult.totalTests
    /\ DOMAIN batchResult.results = DOMAIN batchInput
    /\ \A i \in DOMAIN batchInput :
         testCase[i] = batchInput[i] /\ batchResult.results[i] = testResult[i]

\* a returned batch of two cases, the first passed, the second failed on its
\* assertions
C23_Witness ==
  /\ batchPc = "returned"
  /\ Len(batchInput) = 2
  /\ batchResult.results[1].passed
  /\ batchResult.results[2].scrapeSuccess /\ ~batchResult.results[2].passed
  /\ batchResult.passedTests = 1 /\ batchResult.failedTests = 1

\* resolving the jurisdiction, loading the scraper or scraping threw in case i
CaseThrew(i) ==
  \/ loadCountyConfig(batchInput[i].countyId) # NoError
  \/ callPc[i] = "threw"
  \/ result[i].status = "threw"

\* the batch has returned one TestResult per input case, and every case in
\* which something threw has a failed result with TEST_EXECUTION_ERROR
BatchComplete ==
  /\ batchPc = "returned"
  /\ Len(batchResult.results) = Len(batchInput)
  /\ \A i \in DOMAIN batchInput :
       CaseThrew(i) =>
         /\ ~batchResult.results[i].passed
         /\ batchResult.results[i].scrapeCode = "TEST_EXECUTION_ERROR"

\* C30: a failing case never aborts a batch: runTestCase turns any exception
\* raised while resolving the jurisdiction, loading the scraper or scraping
\* into a failed TestResult with code TEST_EXECUTION_ERROR, so runTestCases
\* eventually returns exactly one TestResult for every input case.
C30_BatchAlwaysReturns == <>BatchComplete

\* a returned batch whose first case threw and whose second case still ran
C30_Witness ==
  /\ batchPc = "returned"
  /\ Len(batchInput) = 2
  /\ CaseThrew(1)
  /\ batchResult.results[1].scrapeCode = "TEST_EXECUTION_ERROR"
  /\ batchResult.results[2].scrapeSuccess

(***************************************************************************)
(* Properties of Pasco's identifier transform                              *)
(***************************************************************************)
\* the number of '-'-separated segments of an identifier
segmentCount(id) == 1 + Cardinality({i \in DOMAIN id : id[i] = "-"})

\* the segment the character at position i lies in
segmentAt(id, i) == 1 + Cardinality({j \in 1..(i - 1) : id[j] = "-"})

\* the digits of segment k, in the order they stand in the identifier
digitsOfSegment(id, k) ==
  LET at == {i \in DOMAIN id : segmentAt(id, i) = k /\ id[i] \in NumericChars}
  IN [n \in 1..Cardinality(at) |->
        id[CHOOSE i \in at : Cardinality({j \in at : j < i}) = n - 1]]

\* the segment that stands at place r after the reordering
segmentPlaced(r) == IF r = 1 THEN 3 ELSE IF r = 3 THEN 1 ELSE r

\* the digits of the segments placed at r, r+1, ... up to the last segment
RECURSIVE digitsFrom(_, _)
digitsFrom(id, r) ==
  IF r > segmentCount(id) THEN <<>>
  ELSE digitsOfSegment(id, segmentPlaced(r)) \o digitsFrom(id, r + 1)

\* 2126220030000000280
ExampleTransformed ==
  <<"2", "1", "2", "6", "2", "2", "0", "0", "3", "0", "0", "0", "0", "0", "0",
    "0", "2", "8", "0">>

\* the attempt went through navigateToSearch
Navigated(a) == \E i \in DOMAIN trace[a] : trace[a][i] = "navigate"

\* C24: for an identifier with fewer than 3 '-'-separated segments Pasco's
\* transform raises VALIDATION_ERROR carrying the raw identifier, and for
\* that attempt no URL is built and no page navigation is issued.
C24_ShortIdentifierRejected ==
  \A a \in Attempts :
    scraper[a] = "Pasco" /\ Navigated(a) /\ segmentCount(identifier[a]) < 3 =>
      /\ thrown[a].cls = "ScraperError"
      /\ thrown[a].code = "VALIDATION_ERROR"
      /\ thrown[a].identifier = identifier[a]
      /\ urls[a] = <<>>
      /\ Done(a) => result[a].status = "failure" /\ result[a].error.code = "VALIDATION_ERROR"

\* a two-segment identifier was rejected and the attempt has completed
C24_Witness ==
  \E a \in Attempts :
    /\ Done(a)
    /\ identifier[a] = <<"1", "-", "2">>
    /\ result[a].error.code = "VALIDATION_ERROR"
    /\ urls[a] = <<>>

\* C26: for an identifier with at least 3 '-'-separated segments Pasco's
\* transform returns the segments in the order 3rd, 2nd, 1st, 4th, 5th, ...
\* concatenated with every non-digit removed (22-26-21-0030-00000-0280 gives
\* 2126220030000000280); the same input always gives the same output.
C26_SegmentsReordered ==
  \A a \in Attempts :
    scraper[a] = "Pasco" /\ Navigated(a) /\ segmentCount(identifier[a]) >= 3 =>
      /\ urls[a] = <<digitsFrom(identifier[a], 1)>>
      /\ identifier[a] = ExampleParcelId => urls[a] = <<ExampleTransformed>>
      /\ \A b \in Attempts :
           Navigated(b) /\ identifier[b] = identifier[a] => urls[b] = urls[a]

\* the example of the source was transformed and navigated to
C26_Witness ==
  \E a \in Attempts :
    /\ Done(a)
    /\ identifier[a] = ExampleParcelId
    /\ urls[a] = <<ExampleTransformed>>
    /\ result[a].status = "success"

(***************************************************************************)
(* Properties of concurrent attempts                                       *)
(***************************************************************************)
\* C25: when several scrape attempts run concurrently, also on the same
\* cached scraper instance, each browser session is opened, used and closed
\* by exactly one attempt: no attempt ever navigates in, or closes, a session
\* opened by another attempt.
C25_SessionOwnedByOneAttempt ==
  /\ \A s \in SessionIds :
       sessions[s].state # "unused" =>
         /\ sessions[s].openedBy \in Attempts
         /\ browser[sessions[s].openedBy] = s
         /\ sessions[s].usedBy \subseteq {sessions[s].openedBy}
         /\ sessions[s].closedBy \subseteq {sessions[s].openedBy}
  /\ \A a, b \in Attempts : a # b /\ browser[a] # 0 => browser[a] # browser[b]

\* two attempts on the same scraper are past navigation at the same time,
\* each in its own open session
C25_Witness ==
  \E a, b \in Attempts :
    /\ a # b
    /\ scraper[a] = scraper[b]
    /\ pc[a] = "wait" /\ pc[b] = "wait"
    /\ sessions[browser[a]].state = "open" /\ sessions[browser[a]].usedBy = {a}
    /\ sessions[browser[b]].state = "open" /\ sessions[browser[b]].usedBy = {b}

(***************************************************************************)
(* Properties of Clay's merged mailing address                             *)
(***************************************************************************)
\* the index at which x is first seen in c
firstIndex(c, x) == CHOOSE i \in DOMAIN c : c[i] = x /\ \A j \in 1..(i - 1) : c[j] # x

\* the distinct elements of c, each once, in the order they are first seen
inFirstSeenOrder(c) ==
  LET distinct == {c[i] : i \in DOMAIN c} IN
    [n \in 1..Cardinality(distinct) |->
       CHOOSE x \in distinct :
         Cardinality({y \in distinct : firstIndex(c, y) < firstIndex(c, x)}) = n - 1]

\* C27: when Clay's page yields several address candidates, the merged
\* mailing address holds each distinct candidate exactly once, in the order
\* first seen in the document, joined by line separators.
C27_DistinctAddressesInOrder ==
  clayPc # "idle" =>
    clayData.mailingAddress = joinLines(inFirstSeenOrder(addresses(clayBlocks)))

\* three candidates, the third repeating the first, were merged and returned
C27_Witness ==
  /\ clayPc = "returned"
  /\ Len(addresses(clayBlocks)) = 3
  /\ addresses(clayBlocks)[1] = addresses(clayBlocks)[3]
  /\ addresses(clayBlocks)[1] # addresses(clayBlocks)[2]
  /\ clayData.mailingAddress = addresses(clayBlocks)[1] \o addresses(clayBlocks)[2]

(***************************************************************************)
(* Properties of the configuration cache                                   *)
(***************************************************************************)
\* call j of the log is a lookup that loaded the file successfully
LoadedAt(log, j) == log[j].op = "lookup" /\ log[j].read /\ log[j].outcome # "threw"

\* the successful loads before call i with no clearConfigCache in between
LoadsInForce(log, i) ==
  {j \in 1..(i - 1) : LoadedAt(log, j) /\ \A k \in (j + 1)..(i - 1) : log[k].op # "clear"}

\* C28: after the first successful load the configuration is served from
\* the cache without re-reading the file until clearConfigCache is called;
\* after clearConfigCache the next lookup re-reads the file; a failed load
\* caches nothing, so the next lookup tries the file again.
C28_CachedUntilCleared ==
  /\ \A i \in DOMAIN configLog :
       configLog[i].op = "lookup" =>
         /\ configLog[i].read <=> LoadsInForce(configLog, i) = {}
         /\ \A j \in LoadsInForce(configLog, i) :
              configLog[i].outcome = configLog[j].outcome
  /\ configCache # "null" <=> LoadsInForce(configLog, Len(configLog) + 1) # {}

\* a failed load, then a load, a lookup served from the cache although the
\* file has changed, a clear, and a lookup that reads the changed file
C28_Witness ==
  /\ Len(configLog) = 5
  /\ configLog[1] = LookupEntry(TRUE, "threw")
  /\ configLog[2] = LookupEntry(TRUE, "v1")
  /\ configLog[3] = LookupEntry(FALSE, "v1")
  /\ configLog[4] = ClearEntry
  /\ configLog[5] = LookupEntry(TRUE, "v2")

(***************************************************************************)
(* Properties of a failing getScraper                                      *)
(***************************************************************************)
\* C29: when loading or constructing a county's scraper fails, getScraper
\* throws a ScraperError with code UNKNOWN_ERROR for the requested county
\* whose details carry the underlying error.
C29_LoadFailureWrapped ==
  \A c \in Calls :
    callPc[c] = "threw" =>
      /\ callThrown[c].cls = "ScraperError"
      /\ callThrown[c].code = "UNKNOWN_ERROR"
      /\ callThrown[c].details # "undefined"

====
